---------------------------- MODULE Spec2Model ----------------------------
(***************************************************************************)
(* Model of three pieces of the WooCommerce repository:                    *)
(*   - the block-reference documentation generator (a node script),        *)
(*   - the "New CFE workflow notifications" GitHub Actions workflow,       *)
(*   - the TotalsCoupon React component.                                   *)
(*                                                                         *)
(* Text is a sequence of tokens.  Data characters are one-character        *)
(* strings; the literal pieces of the program (the two marker lines, the   *)
(* pieces of the markdown template) are atomic tokens.                     *)
(***************************************************************************)
EXTENDS Integers, Sequences, FiniteSets, TLC

(***************************************************************************)
(* Bounds of the model.                                                    *)
(***************************************************************************)
MaxDocLen == 4
MaxFiles == 2
MaxRuns == 2
MaxKeys == 2
MaxInner == 2
MaxAttrs == 2

(***************************************************************************)
(* Text helpers.                                                           *)
(***************************************************************************)
RECURSIVE Flatten(_)
Flatten(ss) == IF ss = <<>> THEN <<>> ELSE Head(ss) \o Flatten(Tail(ss))

RECURSIVE JoinWith(_, _)
JoinWith(ss, sep) ==
  IF ss = <<>> THEN <<>>
  ELSE IF Len(ss) = 1 THEN ss[1]
  ELSE ss[1] \o sep \o JoinWith(Tail(ss), sep)

\* UTF-16 code unit of a data character, the order Array.prototype.sort uses.
\* "BQ" stands for the backquote character.
CodeOf(c) ==
  CASE c = " " -> 32 [] c = "$" -> 36 [] c = "&" -> 38 [] c = "'" -> 39
    [] c = "(" -> 40 [] c = ")" -> 41 [] c = "," -> 44
    [] c = "X" -> 88 [] c = "Y" -> 89 [] c = "_" -> 95 [] c = "BQ" -> 96
    [] c = "a" -> 97 [] c = "b" -> 98 [] c = "c" -> 99 [] c = "d" -> 100
    [] c = "e" -> 101 [] c = "f" -> 102 [] c = "g" -> 103 [] c = "i" -> 105
    [] c = "k" -> 107 [] c = "l" -> 108 [] c = "n" -> 110 [] c = "o" -> 111
    [] c = "p" -> 112 [] c = "r" -> 114 [] c = "t" -> 116 [] c = "u" -> 117
    [] c = "w" -> 119 [] c = "x" -> 120 [] c = "~" -> 126
    [] OTHER -> 0

\* a < b in the order of the default comparator of Array.prototype.sort
RECURSIVE StrLess(_, _)
StrLess(a, b) ==
  IF b = <<>> THEN FALSE
  ELSE IF a = <<>> THEN TRUE
  ELSE IF CodeOf(Head(a)) # CodeOf(Head(b)) THEN CodeOf(Head(a)) < CodeOf(Head(b))
  ELSE StrLess(Tail(a), Tail(b))

RECURSIVE SortInsert(_, _)
SortInsert(x, ss) ==
  IF ss = <<>> THEN <<x>>
  ELSE IF StrLess(x, Head(ss)) THEN <<x>> \o ss
  ELSE <<Head(ss)>> \o SortInsert(x, Tail(ss))

\* Array.prototype.sort() with the default comparator
RECURSIVE Sort(_)
Sort(ss) == IF ss = <<>> THEN <<>> ELSE SortInsert(Head(ss), Sort(Tail(ss)))

\* String.prototype.startsWith
StartsWith(s, p) == Len(s) >= Len(p) /\ SubSeq(s, 1, Len(p)) = p

(***************************************************************************)
(* JSON values of a descriptor.                                            *)
(* An object is the sequence of its entries in key enumeration order.      *)
(* An array carries its items and, as any JS object, its own properties.   *)
(***************************************************************************)
Undefined == [kind |-> "undefined", val |-> FALSE, items |-> <<>>, entries |-> <<>>]
Bool(b) == [kind |-> "boolean", val |-> b, items |-> <<>>, entries |-> <<>>]
Arr(items) == [kind |-> "array", val |-> TRUE, items |-> items, entries |-> <<>>]
Obj(entries) == [kind |-> "object", val |-> TRUE, items |-> <<>>, entries |-> entries]
KV(k, v) == [key |-> k, value |-> v]

Truthy(v) == IF v.kind = "boolean" THEN v.val ELSE v.kind # "undefined"
TypeofObject(v) == v.kind \in {"object", "array"}
IsArray(v) == v.kind = "array"

\* key in obj
In(key, obj) == \E i \in 1..Len(obj.entries) : obj.entries[i].key = key
\* obj[ key ]
Get(obj, key) ==
  IF In(key, obj)
  THEN LET i == CHOOSE i \in 1..Len(obj.entries) : obj.entries[i].key = key
       IN obj.entries[i].value
  ELSE Undefined
\* obj[ key ] = v
Put(obj, key, v) ==
  IF In(key, obj)
  THEN [obj EXCEPT !.entries =
          [i \in 1..Len(obj.entries) |->
             IF obj.entries[i].key = key THEN KV(key, v) ELSE obj.entries[i]]]
  ELSE [obj EXCEPT !.entries = Append(obj.entries, KV(key, v))]
\* Object.keys( obj )
ObjectKeys(obj) == [i \in 1..Len(obj.entries) |-> obj.entries[i].key]

EXP_PREFIX == <<"_", "_", "e", "x", "p">>
STRIKE == <<"~", "~">>
K_background == <<"b", "a", "c", "k", "g", "r", "o", "u", "n", "d">>
K_text == <<"t", "e", "x", "t">>
K_color == <<"c", "o", "l", "o", "r">>

RECURSIVE SelectKeys(_)
SelectKeys(ks) ==
  IF ks = <<>> THEN <<>>
  ELSE IF ~StartsWith(Head(ks), EXP_PREFIX)
       THEN <<Head(ks)>> \o SelectKeys(Tail(ks))
       ELSE SelectKeys(Tail(ks))

\* getTruthyKeys without its filter
getTruthyKeys_NoFilter(obj) ==
  LET ks == ObjectKeys(obj)
  IN [i \in 1..Len(ks) |->
        IF Truthy(Get(obj, ks[i])) THEN ks[i] ELSE STRIKE \o ks[i] \o STRIKE]

getTruthyKeys(obj) ==
  LET ks == SelectKeys(ObjectKeys(obj))
  IN [i \in 1..Len(ks) |->
        IF Truthy(Get(obj, ks[i])) THEN ks[i] ELSE STRIKE \o ks[i] \o STRIKE]

processObjWithInnerKeys(obj) ==
  LET kvs == getTruthyKeys(obj)
  IN [i \in 1..Len(kvs) |->
        LET v == Get(obj, kvs[i])
        IN IF IsArray(v)
           THEN kvs[i] \o <<" ", "(">> \o JoinWith(Sort(v.items), <<",", " ">>) \o <<")">>
           ELSE IF TypeofObject(v)
           THEN kvs[i] \o <<" ", "(">>
                  \o JoinWith(Sort(getTruthyKeys(v)), <<",", " ">>) \o <<")">>
           ELSE kvs[i]]

\* augmentSupports setting background and text whether or not they are given
augmentSupports_Overrides(supports) ==
  IF Truthy(supports) /\ In(K_color, supports)
  THEN LET c0 == Get(supports, K_color)
           c1 == IF TypeofObject(c0) THEN Put(c0, K_background, Bool(TRUE)) ELSE c0
           c2 == IF TypeofObject(c1) THEN Put(c1, K_text, Bool(TRUE)) ELSE c1
       IN Put(supports, K_color, c2)
  ELSE supports

augmentSupports(supports) ==
  IF Truthy(supports) /\ In(K_color, supports)
  THEN LET c0 == Get(supports, K_color)
           c1 == IF TypeofObject(c0) /\ ~In(K_background, c0)
                 THEN Put(c0, K_background, Bool(TRUE)) ELSE c0
           c2 == IF TypeofObject(c1) /\ ~In(K_text, c1)
                 THEN Put(c1, K_text, Bool(TRUE)) ELSE c1
       IN Put(supports, K_color, c2)
  ELSE supports

(***************************************************************************)
(* A descriptor file.  parsed = FALSE is a file that require() cannot      *)
(* parse.  A string field is absent (def = FALSE) or holds a text.         *)
(***************************************************************************)
Str(t) == [def |-> TRUE, text |-> t]
NoStr == [def |-> FALSE, text |-> <<>>]
BadFile ==
  [parsed |-> FALSE, name |-> NoStr, title |-> NoStr, description |-> NoStr,
   category |-> NoStr, ancestor |-> NoStr, parent |-> NoStr,
   supports |-> Undefined, attributes |-> Undefined]
Desc(name, title, description, supports, attributes) ==
  [parsed |-> TRUE, name |-> name, title |-> title, description |-> description,
   category |-> NoStr, ancestor |-> NoStr, parent |-> NoStr,
   supports |-> supports, attributes |-> attributes]

\* ${ s } in a template literal
Interpolate(s) == IF s.def THEN s.text ELSE <<"undefined">>
\* s || ''
OrEmpty(s) == IF s.def /\ s.text # <<>> THEN s.text ELSE <<>>
\* ${ list } : Array.prototype.toString, the join with ","
ArrayToString(list) == JoinWith(list, <<",">>)
\* ${ list || list.sort().join( ', ' ) } : an array, even an empty one, is truthy
OrSortJoin(list) == ArrayToString(list)

\* supportsList of readBlockJSON
SupportsListOf(d) ==
  IF d.supports.kind # "undefined"
  THEN LET supportsAugmented == augmentSupports(d.supports)
       IN IF Truthy(supportsAugmented)
          THEN processObjWithInnerKeys(supportsAugmented) ELSE <<>>
  ELSE <<>>

\* attributes of readBlockJSON
AttributesOf(d) ==
  IF d.attributes.kind # "undefined" THEN getTruthyKeys(d.attributes) ELSE <<>>

T_HEADING == "\n## "
T_DASH == " - "
T_PARA == "\n\n"
T_NAME == "\n\n-\t**Name:** "
T_CATEGORY == "\n-\t**Category:** "
T_ANCESTOR == "\n-   **Ancestor:** "
T_PARENT == "\n-   **Parent:** "
T_SUPPORTS == "\n-\t**Supports:** "
T_ATTRIBUTES == "\n-\t**Attributes:** "
T_NL == "\n"

\* the text printed after **Supports:** and after **Attributes:**
SupportsField(d) == OrSortJoin(SupportsListOf(d))
AttributesField(d) == OrSortJoin(AttributesOf(d))

\* the template literal readBlockJSON returns
Markup(d) ==
  <<T_HEADING>> \o Interpolate(d.title) \o <<T_DASH>> \o Interpolate(d.name)
    \o <<T_PARA>> \o OrEmpty(d.description)
    \o <<T_NAME>> \o Interpolate(d.name)
    \o <<T_CATEGORY>> \o OrEmpty(d.category)
    \o <<T_ANCESTOR>> \o OrEmpty(d.ancestor)
    \o <<T_PARENT>> \o OrEmpty(d.parent)
    \o <<T_SUPPORTS>> \o SupportsField(d)
    \o <<T_ATTRIBUTES>> \o AttributesField(d)
    \o <<T_NL>>

\* readBlockJSON without its check of blockjson.name
readBlockJSON_NoNameCheck(d) == Markup(d)

readBlockJSON(d) == IF ~d.name.def THEN <<>> ELSE Markup(d)

(***************************************************************************)
(* The splice: docsContent.replace( TOKEN_PATTERN, autogen ).              *)
(***************************************************************************)
START_TOKEN == "<!-- START Autogenerated - DO NOT EDIT -->"
END_TOKEN == "<!-- END Autogenerated - DO NOT EDIT -->"

\* TOKEN_PATTERN matches: START_TOKEN, then [^]* (greedy), then END_TOKEN
HasMatch(doc) ==
  \E i, j \in 1..Len(doc) : i < j /\ doc[i] = START_TOKEN /\ doc[j] = END_TOKEN
\* the leftmost position where the pattern matches
MatchStart(doc) ==
  CHOOSE i \in 1..Len(doc) :
    /\ doc[i] = START_TOKEN /\ \E j \in (i+1)..Len(doc) : doc[j] = END_TOKEN
    /\ \A k \in 1..(i-1) :
         ~(doc[k] = START_TOKEN /\ \E j \in (k+1)..Len(doc) : doc[j] = END_TOKEN)
\* [^]* is greedy: the match ends at the last END_TOKEN
MatchEnd(doc) ==
  CHOOSE j \in (MatchStart(doc)+1)..Len(doc) :
    /\ doc[j] = END_TOKEN
    /\ \A k \in (j+1)..Len(doc) : doc[k] # END_TOKEN

\* GetSubstitution of String.prototype.replace for a pattern without capture
\* groups, scanning the replacement from the left: $$ is a dollar, $& the
\* match, $BQ the text before it, $' the text after it; any other $ stands
\* for itself.  The scan jumps from one $ to the next.
RECURSIVE GetSubstitution(_, _, _, _)
GetSubstitution(matched, before, after, replacement) ==
  IF ~(\E k \in 1..Len(replacement) : replacement[k] = "$") THEN replacement
  ELSE LET k == CHOOSE k \in 1..Len(replacement) :
                  /\ replacement[k] = "$"
                  /\ \A m \in 1..(k-1) : replacement[m] # "$"
           literal == SubSeq(replacement, 1, k - 1)
           isPattern == k < Len(replacement)
                          /\ replacement[k+1] \in {"$", "&", "BQ", "'"}
           piece == IF ~isPattern THEN <<"$">>
                    ELSE CASE replacement[k+1] = "$" -> <<"$">>
                           [] replacement[k+1] = "&" -> matched
                           [] replacement[k+1] = "BQ" -> before
                           [] replacement[k+1] = "'" -> after
           rest == SubSeq(replacement, IF isPattern THEN k + 2 ELSE k + 1,
                          Len(replacement))
       IN literal \o piece \o GetSubstitution(matched, before, after, rest)

\* a replace that loses the text after the match
Replace_DropsAfter(doc, replacement) ==
  IF ~HasMatch(doc) THEN doc
  ELSE LET i == MatchStart(doc)
           j == MatchEnd(doc)
           before == SubSeq(doc, 1, i - 1)
           after == SubSeq(doc, j + 1, Len(doc))
       IN before \o GetSubstitution(SubSeq(doc, i, j), before, after, replacement)

\* String.prototype.replace( TOKEN_PATTERN, replacement ): the first match only
Replace(doc, replacement) ==
  IF ~HasMatch(doc) THEN doc
  ELSE LET i == MatchStart(doc)
           j == MatchEnd(doc)
           before == SubSeq(doc, 1, i - 1)
           after == SubSeq(doc, j + 1, Len(doc))
       IN before
          \o GetSubstitution(SubSeq(doc, i, j), before, after, replacement)
          \o after

(***************************************************************************)
(* Inputs of the generator: the descriptor files found by getFiles and the *)
(* docs file on disk.                                                      *)
(***************************************************************************)
SeqsUpTo(S, n) == UNION {[1..k -> S] : k \in 0..n}

K_align == <<"a", "l", "i", "g", "n">>
K_expX == EXP_PREFIX \o <<"X">>
K_expY == EXP_PREFIX \o <<"Y">>

SampleFiles ==
  { BadFile,
    Desc(NoStr, Str(<<"t">>), NoStr, Undefined, Undefined),
    Desc(Str(<<"a">>), NoStr, Str(<<"d">>),
         Obj(<<KV(K_color, Obj(<<>>))>>), Obj(<<KV(K_align, Bool(FALSE))>>)),
    Desc(Str(<<"b">>), Str(<<"$", "&">>), NoStr, Undefined, Undefined),
    Desc(Str(<<"c">>), Str(<<"t">>), Str(<<"$", "$", "$", "'", "$", "BQ">>),
         Undefined, Undefined) }

DocTokens == {START_TOKEN, END_TOKEN, "x"}

VARIABLES
  files,        \* the descriptor files, each once, in the order getFiles returns them
  diskDoc,      \* the content of BLOCK_LIBRARY_DOCS_FILE on disk
  autogen,      \* let autogen
  docsContent,  \* let docsContent
  pc,           \* position of the script
  doc0,         \* the docs file before the first run
  writes        \* the contents written by fs.writeFileSync, one per run

genVars == <<files, diskDoc, autogen, docsContent, pc, doc0, writes>>

VARIABLES
  rDesc,          \* blockjson, the descriptor readBlockJSON is called on
  rPc,            \* "call" before the call, "returned" after it
  rAugmented,     \* supportsAugmented
  rSupportsList,  \* supportsList
  rAttributes,    \* attributes
  rMarkup         \* the markdown readBlockJSON returns

renderVars == <<rDesc, rPc, rAugmented, rSupportsList, rAttributes, rMarkup>>

VARIABLES
  label,       \* github.event.label.name
  body,        \* github.event.issue.body, line by line
  jobStatus,   \* the status of each job of the workflow
  step,        \* the number of steps each job has completed
  releaseOut,  \* needs.prep.outputs.release_number
  prOut,       \* steps.extract-pr.outputs.PR_NUMBER
  log          \* what the steps did to the PR, the issue and Slack, in order

cfeVars == <<label, body, jobStatus, step, releaseOut, prOut, log>>

VARIABLES
  onSubmit,            \* the onSubmit prop: "undefined" or "function"
  isLoading,           \* the isLoading prop
  couponValue,         \* useState( '' )
  isCouponFormHidden,  \* useState( ! displayCouponForm )
  pending,             \* promises returned by onSubmit and not yet settled
  lastEvent            \* the handler or callback that ran last

couponVars == <<onSubmit, isLoading, couponValue, isCouponFormHidden, pending, lastEvent>>

vars == <<genVars, renderVars, cfeVars, couponVars>>

GenIdle ==
  /\ files = <<>> /\ diskDoc = <<>> /\ autogen = <<>> /\ docsContent = <<>>
  /\ pc = "idle" /\ doc0 = <<>> /\ writes = <<>>
RenderIdle ==
  /\ rDesc = BadFile /\ rPc = "idle" /\ rAugmented = Undefined
  /\ rSupportsList = <<>> /\ rAttributes = <<>> /\ rMarkup = <<>>
CfeIdle ==
  /\ label = "" /\ body = <<>> /\ jobStatus = <<>> /\ step = <<>>
  /\ releaseOut = <<>> /\ prOut = <<>> /\ log = <<>>
CouponIdle ==
  /\ onSubmit = "undefined" /\ isLoading = FALSE /\ couponValue = ""
  /\ isCouponFormHidden = TRUE /\ pending = 0 /\ lastEvent = "idle"

GenInit ==
  /\ files \in { s \in SeqsUpTo(SampleFiles, MaxFiles) :
                    \A i, j \in 1..Len(s) : i # j => s[i] # s[j] }
  /\ diskDoc \in SeqsUpTo(DocTokens, MaxDocLen)
  /\ doc0 = diskDoc
  /\ autogen = <<>>
  /\ docsContent = <<>>
  /\ pc = "start"
  /\ writes = <<>>
  /\ RenderIdle /\ CfeIdle /\ CouponIdle

\* the script starts, for the first time or again with the descriptor files
\* unchanged: autogen = '', then files.forEach: autogen += readBlockJSON( file )
\* for each file in turn; require throws on the first file it cannot parse and
\* the script ends there
ReadDescriptors ==
  /\ pc = "start" \/ (pc = "done" /\ Len(writes) < MaxRuns)
  /\ LET bad == { i \in 1..Len(files) : ~files[i].parsed }
         n == IF bad = {} THEN Len(files)
              ELSE (CHOOSE i \in bad : \A k \in bad : i <= k) - 1
     IN /\ autogen' = Flatten([i \in 1..n |-> readBlockJSON(files[i])])
        /\ pc' = IF bad = {} THEN "replace" ELSE "aborted"
  /\ docsContent' = <<>>
  /\ UNCHANGED <<files, diskDoc, doc0, writes, renderVars, cfeVars, couponVars>>

\* docsContent is read, the delimiters are added to autogen, the pattern is
\* replaced and docsContent is written back
SpliceAndWrite ==
  /\ pc = "replace"
  /\ autogen' = <<START_TOKEN, T_NL>> \o autogen \o <<T_NL, END_TOKEN>>
  /\ docsContent' = Replace(diskDoc, autogen')
  /\ diskDoc' = docsContent'
  /\ writes' = Append(writes, docsContent')
  /\ pc' = "done"
  /\ UNCHANGED <<files, doc0, renderVars, cfeVars, couponVars>>

GenNext == ReadDescriptors \/ SpliceAndWrite

Spec == GenInit /\ [][GenNext]_vars

(***************************************************************************)
(* Claims about a run of the generator.                                    *)
(***************************************************************************)
\* the docs file as run r found it
DocBefore(r) == IF r = 1 THEN doc0 ELSE writes[r - 1]

\* the marker region of a document: from its first start marker to its last
\* end marker, when the one comes before the other
HasRegion(d) ==
  \E i, j \in 1..Len(d) : i < j /\ d[i] = START_TOKEN /\ d[j] = END_TOKEN
FirstStart(d) ==
  CHOOSE i \in 1..Len(d) :
    d[i] = START_TOKEN /\ \A k \in 1..(i-1) : d[k] # START_TOKEN
LastEnd(d) ==
  CHOOSE j \in 1..Len(d) :
    d[j] = END_TOKEN /\ \A k \in (j+1)..Len(d) : d[k] # END_TOKEN
PrefixOf(d) == SubSeq(d, 1, FirstStart(d) - 1)
SuffixOf(d) == SubSeq(d, LastEnd(d) + 1, Len(d))

\* the fragments of the descriptor files, in discovery order
Fragments == [i \in 1..Len(files) |-> readBlockJSON(files[i])]
AllParsed == \A i \in 1..Len(files) : files[i].parsed

\* C1: a run leaves the text outside the marker region as it was: the written
\* document starts with the text before the first start marker and ends with
\* the text after the last end marker, the two not overlapping; a document
\* without a start marker followed by an end marker is written back unchanged.
C1_OutsidePreserved ==
  \A r \in 1..Len(writes) :
    LET b == DocBefore(r)
        w == writes[r]
    IN IF HasRegion(b)
       THEN /\ Len(w) >= Len(PrefixOf(b)) + Len(SuffixOf(b))
            /\ SubSeq(w, 1, Len(PrefixOf(b))) = PrefixOf(b)
            /\ SubSeq(w, Len(w) - Len(SuffixOf(b)) + 1, Len(w)) = SuffixOf(b)
       ELSE w = b

C1_Witness ==
  /\ Len(writes) >= 1
  /\ HasRegion(doc0)
  /\ PrefixOf(doc0) # <<>>
  /\ SuffixOf(doc0) # <<>>
  /\ writes[1] # doc0

\* C2: after a run on a document with a marker region, the written document is
\* the old prefix, START_TOKEN, a newline, the fragments of all descriptors in
\* discovery order as readBlockJSON returned them, a newline, END_TOKEN, and
\* the old suffix.
C2_RegionIsFragments ==
  \A r \in 1..Len(writes) :
    LET b == DocBefore(r)
    IN HasRegion(b) =>
         writes[r] = PrefixOf(b) \o <<START_TOKEN, T_NL>> \o Flatten(Fragments)
                       \o <<T_NL, END_TOKEN>> \o SuffixOf(b)

\* C3: a second run, on the document the first run wrote and with the same
\* descriptor files, writes the same document again.
C3_Idempotent == Len(writes) >= 2 => writes[2] = writes[1]

RECURSIVE EntryLists(_, _)
EntryLists(entries, n) ==
  IF n = 0 THEN {<<>>}
  ELSE LET shorter == EntryLists(entries, n - 1)
       IN shorter \cup
          UNION { { Append(es, e) :
                      e \in { x \in entries : \A i \in 1..Len(es) : es[i].key # x.key } } :
                  es \in shorter }
ObjectsOver(entries, n) == { Obj(es) : es \in EntryLists(entries, n) }

InnerKeys == {K_background, K_text, K_expY}
InnerObjects ==
  ObjectsOver({KV(k, Bool(b)) : k \in InnerKeys, b \in BOOLEAN}, MaxInner)
SampleArray == Arr(<<<<"w">>, <<"f">>>>)
SampleObject == Obj(<<KV(K_expY, Bool(TRUE)), KV(K_text, Bool(FALSE))>>)

SupportsKeys == {K_color, K_align, K_expX}
SupportsValues(k) ==
  IF k = K_color
  THEN {Bool(TRUE), Bool(FALSE), SampleArray} \cup InnerObjects
  ELSE {Bool(TRUE), Bool(FALSE), SampleArray, SampleObject}
SupportsUniverse ==
  {Undefined}
    \cup ObjectsOver(UNION {{KV(k, v) : v \in SupportsValues(k)} : k \in SupportsKeys},
                     MaxKeys)

AttributeKeys == {K_align, K_expX, <<"b">>}
AttributesUniverse ==
  {Undefined}
    \cup ObjectsOver({KV(k, Bool(b)) : k \in AttributeKeys, b \in BOOLEAN}, MaxAttrs)

SampleSupports == {Undefined, Obj(<<KV(K_color, Obj(<<>>))>>)}
SampleAttributes ==
  { Undefined,
    Obj(<<KV(<<"b">>, Bool(FALSE)), KV(K_expX, Bool(TRUE)), KV(K_align, Bool(TRUE))>>) }

\* supports and attributes are rendered independently of each other: each
\* ranges over its universe beside samples of the other
RenderInit ==
  /\ rDesc \in { Desc(Str(<<"n">>), Str(<<"t">>), NoStr, s, a) :
                    s \in SupportsUniverse, a \in SampleAttributes }
                \cup { Desc(n, Str(<<"t">>), NoStr, s, a) :
                          n \in {Str(<<"n">>), NoStr},
                          s \in SampleSupports, a \in AttributesUniverse }
  /\ rPc = "call"
  /\ rAugmented = Undefined
  /\ rSupportsList = <<>>
  /\ rAttributes = <<>>
  /\ rMarkup = <<>>
  /\ GenIdle /\ CfeIdle /\ CouponIdle

\* markup = readBlockJSON( file ), with the values of its locals on return;
\* the function returns before it computes them when the name is missing
ReadBlockJSONCall ==
  /\ rPc = "call"
  /\ rPc' = "returned"
  /\ rMarkup' = readBlockJSON(rDesc)
  /\ IF rDesc.name.def
     THEN /\ rAugmented' = IF rDesc.supports.kind # "undefined"
                           THEN augmentSupports(rDesc.supports) ELSE Undefined
          /\ rSupportsList' = SupportsListOf(rDesc)
          /\ rAttributes' = AttributesOf(rDesc)
     ELSE UNCHANGED <<rAugmented, rSupportsList, rAttributes>>
  /\ UNCHANGED <<rDesc, genVars, cfeVars, couponVars>>

RenderNext == ReadBlockJSONCall

SpecRender == RenderInit /\ [][RenderNext]_vars

(***************************************************************************)
(* Claims about readBlockJSON, getTruthyKeys and augmentSupports.          *)
(***************************************************************************)
Contains(text, pat) ==
  \E i \in 1..(Len(text) - Len(pat) + 1) : SubSeq(text, i, i + Len(pat) - 1) = pat
PositionOf(text, token) == CHOOSE i \in 1..Len(text) : text[i] = token
\* the text the markup prints after **Supports:** and after **Attributes:**
PrintedSupports(markup) ==
  SubSeq(markup, PositionOf(markup, T_SUPPORTS) + 1, PositionOf(markup, T_ATTRIBUTES) - 1)
PrintedAttributes(markup) ==
  SubSeq(markup, PositionOf(markup, T_ATTRIBUTES) + 1, Len(markup) - 1)

Returned == rPc = "returned" /\ rDesc.name.def

\* C4: for a descriptor with a name, the Supports field is the supports list
\* sorted and joined with ", ", the Attributes field the truthy-key list sorted
\* and joined with ", "; an empty list prints nothing.
C4_SortedCommaJoined ==
  Returned =>
    /\ PrintedSupports(rMarkup) = JoinWith(Sort(rSupportsList), <<",", " ">>)
    /\ PrintedAttributes(rMarkup) = JoinWith(Sort(rAttributes), <<",", " ">>)

\* res lists the keys of obj that do not start with __exp, in the order of
\* obj, a key of a falsy value wrapped in ~~
IsTruthyKeyList(obj, res) ==
  LET kept == { i \in 1..Len(obj.entries) :
                  ~StartsWith(obj.entries[i].key, EXP_PREFIX) }
      nth(n) == CHOOSE i \in kept : Cardinality({ j \in kept : j <= i }) = n
  IN /\ Len(res) = Cardinality(kept)
     /\ \A n \in 1..Len(res) :
          LET e == obj.entries[nth(n)]
          IN res[n] = IF e.value.kind = "boolean" /\ ~e.value.val
                      THEN <<"~", "~">> \o e.key \o <<"~", "~">>
                      ELSE e.key

\* C6: getTruthyKeys returns the keys not starting with __exp, in enumeration
\* order, each as itself when its value is truthy and as ~~key~~ when it is
\* falsy; the printed Supports and Attributes fields never show __exp.
C6_TruthyKeys ==
  Returned =>
    /\ rDesc.attributes.kind = "object" => IsTruthyKeyList(rDesc.attributes, rAttributes)
    /\ rAugmented.kind = "object" =>
         /\ IsTruthyKeyList(rAugmented, getTruthyKeys(rAugmented))
         /\ \A i \in 1..Len(rAugmented.entries) :
              LET v == rAugmented.entries[i].value
              IN v.kind = "object" => IsTruthyKeyList(v, getTruthyKeys(v))
    /\ ~Contains(PrintedSupports(rMarkup), EXP_PREFIX)
    /\ ~Contains(PrintedAttributes(rMarkup), EXP_PREFIX)

C6_Witness ==
  /\ Returned
  /\ rDesc.attributes.kind = "object"
  /\ In(K_expX, rDesc.attributes)
  /\ Len(rAttributes) = Len(rDesc.attributes.entries) - 1
  /\ rDesc.supports.kind = "object"
  /\ In(K_expX, rDesc.supports)
  /\ In(K_color, rDesc.supports)
  /\ In(K_expY, Get(rDesc.supports, K_color))
  /\ Truthy(Get(Get(rDesc.supports, K_color), K_expY))

\* the entries of obj other than those of the given keys, in order
RECURSIVE EntriesWithout(_, _)
EntriesWithout(es, keys) ==
  IF es = <<>> THEN <<>>
  ELSE IF Head(es).key \in keys THEN EntriesWithout(Tail(es), keys)
  ELSE <<Head(es)>> \o EntriesWithout(Tail(es), keys)

\* what augmentSupports is to do to supports, given the result
AugmentedAsClaimed(supports, result) ==
  LET color == Get(supports, K_color)
      after == Get(result, K_color)
      defaulted(k) ==
        /\ In(k, after)
        /\ Get(after, k) = IF In(k, color) THEN Get(color, k) ELSE Bool(TRUE)
  IN IF In(K_color, supports) /\ TypeofObject(color)
     THEN /\ defaulted(K_background)
          /\ defaulted(K_text)
          /\ after.kind = color.kind
          /\ after.items = color.items
          /\ EntriesWithout(after.entries, {K_background, K_text})
               = EntriesWithout(color.entries, {K_background, K_text})
          /\ ObjectKeys(result) = ObjectKeys(supports)
          /\ \A k \in {supports.entries[i].key : i \in 1..Len(supports.entries)} \ {K_color} :
               Get(result, k) = Get(supports, k)
     ELSE result = supports

LacksBoth(color) == ~In(K_background, color) /\ ~In(K_text, color)
\* the Supports field prints an entry "color (...)" that lists background and
\* text, neither of them struck through
PrintsBackgroundAndText(list, markup) ==
  \E i \in 1..Len(list) :
    /\ StartsWith(list[i], K_color \o <<" ", "(">>)
    /\ Contains(list[i], K_background)
    /\ Contains(list[i], K_text)
    /\ ~Contains(list[i], <<"~", "~">> \o K_background)
    /\ ~Contains(list[i], <<"~", "~">> \o K_text)
    /\ Contains(PrintedSupports(markup), list[i])

MaxBodyLen == 4

Q_RELEASE == "Which release does this request apply to?"
Q_PR == "Which PR needs to be included?"
Line(t, a, b) == [t |-> t, a |-> a, b |-> b]
BodyLines ==
  { Line(Q_RELEASE, 0, 0), Line(Q_PR, 0, 0), Line("release", 6, 7),
    Line("release", 6, 8), Line("pull", 1234, 0), Line("text", 0, 0) }

L_CREATED == "code freeze exception"
L_APPROVED == "CFE Approved"
L_REJECTED == "CFE Rejected"
LabelNames == {L_CREATED, L_APPROVED, L_REJECTED, "other"}
Jobs == {"prep", "cfe-created", "cfe-approved", "cfe-rejected"}

\* body.match( regex ) for a regex "question .*? \n (capture)" with the s flag:
\* the first line with the question, then the first later line that starts
\* with what the capture matches
Matches(b, question, kind) ==
  \E i, j \in 1..Len(b) : i < j /\ b[i].t = question /\ b[j].t = kind
MatchLine(b, question, kind) ==
  LET i == CHOOSE i \in 1..Len(b) :
             b[i].t = question /\ \A k \in 1..(i-1) : b[k].t # question
      j == CHOOSE j \in (i+1)..Len(b) :
             b[j].t = kind /\ \A k \in (i+1)..(j-1) : b[k].t # kind
  IN b[j]

\* match[1] of releaseRegex
ReleaseNumber(b) ==
  LET l == MatchLine(b, Q_RELEASE, "release") IN <<l.a, l.b>>
\* match[2] of prRegex
PrNumber(b) == <<MatchLine(b, Q_PR, "pull").a>>

Entry(job, op, arg) == [job |-> job, op |-> op, arg |-> arg]
\* MILESTONE="$RELEASE_NUMBER.0"
Milestone(release) == release \o <<0>>

CfeInit ==
  /\ label \in LabelNames
  /\ body \in SeqsUpTo(BodyLines, MaxBodyLen)
  /\ jobStatus = [j \in Jobs |-> "queued"]
  /\ step = [j \in Jobs |-> 0]
  /\ releaseOut = <<>>
  /\ prOut = <<>>
  /\ log = <<>>
  /\ GenIdle /\ RenderIdle /\ CouponIdle

\* jobs.<job>.if
JobIf(j) ==
  CASE j = "prep" -> label = L_APPROVED \/ label = L_REJECTED
    [] j = "cfe-created" -> label = L_CREATED
    [] j = "cfe-approved" -> label = L_APPROVED
    [] j = "cfe-rejected" -> label = L_REJECTED
\* a workflow whose jobs name no needs
Needs_None(j) == {}

\* jobs.<job>.needs
Needs(j) == IF j \in {"cfe-approved", "cfe-rejected"} THEN {"prep"} ELSE {}

\* the runner decides on a job once the jobs it needs have ended: it runs when
\* all of them succeeded and its if holds, and is skipped otherwise
StartJob(j) ==
  /\ jobStatus[j] = "queued"
  /\ \A n \in Needs(j) : jobStatus[n] \in {"success", "failure", "skipped"}
  /\ jobStatus' = [jobStatus EXCEPT ![j] =
       IF (\A n \in Needs(j) : jobStatus[n] = "success") /\ JobIf(j)
       THEN "running" ELSE "skipped"]
  /\ UNCHANGED <<label, body, step, releaseOut, prOut, log>>

\* prep: Extract Release Number from Issue Body
ExtractRelease ==
  /\ jobStatus["prep"] = "running"
  /\ IF Matches(body, Q_RELEASE, "release")
     THEN /\ releaseOut' = ReleaseNumber(body)
          /\ jobStatus' = [jobStatus EXCEPT !["prep"] = "success"]
     ELSE /\ releaseOut' = releaseOut
          /\ jobStatus' = [jobStatus EXCEPT !["prep"] = "failure"]
  /\ step' = [step EXCEPT !["prep"] = 1]
  /\ UNCHANGED <<label, body, prOut, log>>

\* a Notify Slack step, the last of its job; continue-on-error: true
NotifySlack(j, after) ==
  /\ jobStatus[j] = "running"
  /\ step[j] = after
  /\ \E ok \in BOOLEAN : log' = Append(log, Entry(j, "slack", <<IF ok THEN 1 ELSE 0>>))
  /\ step' = [step EXCEPT ![j] = after + 1]
  /\ jobStatus' = [jobStatus EXCEPT ![j] = "success"]
  /\ UNCHANGED <<label, body, releaseOut, prOut>>

\* a run: step calling gh; the job fails when the command does
GhStep(j, after, op, arg) ==
  /\ jobStatus[j] = "running"
  /\ step[j] = after
  /\ \E ok \in BOOLEAN :
       IF ok
       THEN /\ log' = Append(log, Entry(j, op, arg))
            /\ step' = [step EXCEPT ![j] = after + 1]
            /\ jobStatus' = jobStatus
       ELSE /\ jobStatus' = [jobStatus EXCEPT ![j] = "failure"]
            /\ UNCHANGED <<log, step>>
  /\ UNCHANGED <<label, body, releaseOut, prOut>>

\* an extract-pr step that does not fail without a match
ExtractPr_NoFail ==
  /\ jobStatus["cfe-approved"] = "running"
  /\ step["cfe-approved"] = 0
  /\ prOut' = IF Matches(body, Q_PR, "pull") THEN PrNumber(body) ELSE prOut
  /\ step' = [step EXCEPT !["cfe-approved"] = 1]
  /\ UNCHANGED <<label, body, releaseOut, log, jobStatus>>

\* cfe-approved: Extract PR number from issue body
ExtractPr ==
  /\ jobStatus["cfe-approved"] = "running"
  /\ step["cfe-approved"] = 0
  /\ IF Matches(body, Q_PR, "pull")
     THEN /\ prOut' = PrNumber(body)
          /\ step' = [step EXCEPT !["cfe-approved"] = 1]
          /\ jobStatus' = jobStatus
     ELSE /\ jobStatus' = [jobStatus EXCEPT !["cfe-approved"] = "failure"]
          /\ UNCHANGED <<prOut, step>>
  /\ UNCHANGED <<label, body, releaseOut, log>>

\* cfe-approved: Add label 'cherry pick to trunk' to PR
AddLabelToPr == GhStep("cfe-approved", 1, "cherry pick to trunk", prOut)
\* cfe-approved: Apply Milestone to the Issue
ApprovedMilestone == GhStep("cfe-approved", 2, "milestone", Milestone(releaseOut))
\* cfe-approved: Comment issue has been approved
ApprovedComment == GhStep("cfe-approved", 3, "comment", <<>>)
ApprovedNotify == NotifySlack("cfe-approved", 4)

\* cfe-rejected: Apply Milestone to the Issue
RejectedMilestone == GhStep("cfe-rejected", 0, "milestone", Milestone(releaseOut))
\* cfe-rejected: Close CFE Issue
RejectedClose == GhStep("cfe-rejected", 1, "close", <<>>)
RejectedNotify == NotifySlack("cfe-rejected", 2)

CreatedNotify == NotifySlack("cfe-created", 0)

CfeNext ==
  \/ (\E j \in Jobs : StartJob(j)) /\ UNCHANGED <<genVars, renderVars, couponVars>>
  \/ ExtractRelease /\ UNCHANGED <<genVars, renderVars, couponVars>>
  \/ CreatedNotify /\ UNCHANGED <<genVars, renderVars, couponVars>>
  \/ ExtractPr /\ UNCHANGED <<genVars, renderVars, couponVars>>
  \/ AddLabelToPr /\ UNCHANGED <<genVars, renderVars, couponVars>>
  \/ ApprovedMilestone /\ UNCHANGED <<genVars, renderVars, couponVars>>
  \/ ApprovedComment /\ UNCHANGED <<genVars, renderVars, couponVars>>
  \/ ApprovedNotify /\ UNCHANGED <<genVars, renderVars, couponVars>>
  \/ RejectedMilestone /\ UNCHANGED <<genVars, renderVars, couponVars>>
  \/ RejectedClose /\ UNCHANGED <<genVars, renderVars, couponVars>>
  \/ RejectedNotify /\ UNCHANGED <<genVars, renderVars, couponVars>>

SpecCFE == CfeInit /\ [][CfeNext]_vars

(***************************************************************************)
(* The TotalsCoupon component: its two pieces of state, the handlers of    *)
(* the link, the input and the button, and the callback of the promise     *)
(* onSubmit returns.                                                       *)
(***************************************************************************)
MaxPending == 2
CouponValues == {"", "SAVE10", "FREE", "WELCOME"}

CouponInit ==
  /\ onSubmit \in {"undefined", "function"}
  /\ isLoading = FALSE
  /\ couponValue = ""
  /\ \E displayCouponForm \in BOOLEAN : isCouponFormHidden = ~displayCouponForm
  /\ pending = 0
  /\ lastEvent = "render"
  /\ GenIdle /\ RenderIdle /\ CfeIdle

\* the parent changes the isLoading prop
SetIsLoading ==
  /\ isLoading' = ~isLoading
  /\ lastEvent' = "isLoading"
  /\ UNCHANGED <<onSubmit, couponValue, isCouponFormHidden, pending>>

\* the link is rendered while the form is hidden
handleCouponAnchorClick ==
  /\ isCouponFormHidden
  /\ isCouponFormHidden' = FALSE
  /\ lastEvent' = "anchorClick"
  /\ UNCHANGED <<onSubmit, isLoading, couponValue, pending>>

\* onChange of the input, rendered while the form is shown
onChange ==
  /\ ~isCouponFormHidden
  /\ \E newCouponValue \in CouponValues : couponValue' = newCouponValue
  /\ lastEvent' = "change"
  /\ UNCHANGED <<onSubmit, isLoading, isCouponFormHidden, pending>>

\* the button is rendered while the form is shown and is disabled while
\* isLoading or with an empty coupon value
ButtonEnabled == ~isCouponFormHidden /\ ~isLoading /\ couponValue # ""

\* handleCouponSubmit: onSubmit is undefined, returns undefined, or returns a
\* promise whose then-callback runs later
handleCouponSubmit ==
  /\ ButtonEnabled
  /\ IF onSubmit = "undefined"
     THEN /\ couponValue' = ""
          /\ isCouponFormHidden' = TRUE
          /\ lastEvent' = "submitWithoutOnSubmit"
          /\ pending' = pending
     ELSE \E returnsPromise \in BOOLEAN :
            /\ returnsPromise => pending < MaxPending
            /\ pending' = IF returnsPromise THEN pending + 1 ELSE pending
            /\ lastEvent' = IF returnsPromise THEN "submitPending"
                            ELSE "submitReturnedUndefined"
            /\ UNCHANGED <<couponValue, isCouponFormHidden>>
  /\ UNCHANGED <<onSubmit, isLoading>>

\* a then-callback that does not look at result
ThenCallback_IgnoresResult ==
  /\ pending > 0
  /\ pending' = pending - 1
  /\ \E result \in BOOLEAN :
       /\ couponValue' = ""
       /\ isCouponFormHidden' = TRUE
       /\ lastEvent' = IF result THEN "resultTrue" ELSE "resultFalse"
  /\ UNCHANGED <<onSubmit, isLoading>>

\* the callback given to then, run when a promise is fulfilled with result
ThenCallback ==
  /\ pending > 0
  /\ pending' = pending - 1
  /\ \E result \in BOOLEAN :
       IF result
       THEN /\ couponValue' = ""
            /\ isCouponFormHidden' = TRUE
            /\ lastEvent' = "resultTrue"
       ELSE /\ lastEvent' = "resultFalse"
            /\ UNCHANGED <<couponValue, isCouponFormHidden>>
  /\ UNCHANGED <<onSubmit, isLoading>>

\* a promise is rejected: then has no rejection callback
PromiseRejected ==
  /\ pending > 0
  /\ pending' = pending - 1
  /\ lastEvent' = "rejected"
  /\ UNCHANGED <<onSubmit, isLoading, couponValue, isCouponFormHidden>>

CouponNext ==
  \/ SetIsLoading /\ UNCHANGED <<genVars, renderVars, cfeVars>>
  \/ handleCouponAnchorClick /\ UNCHANGED <<genVars, renderVars, cfeVars>>
  \/ onChange /\ UNCHANGED <<genVars, renderVars, cfeVars>>
  \/ handleCouponSubmit /\ UNCHANGED <<genVars, renderVars, cfeVars>>
  \/ ThenCallback /\ UNCHANGED <<genVars, renderVars, cfeVars>>
  \/ PromiseRejected /\ UNCHANGED <<genVars, renderVars, cfeVars>>

SpecCoupon == CouponInit /\ [][CouponNext]_vars

(***************************************************************************)
(* Claims about the workflow.                                              *)
(***************************************************************************)
\* the issue body has the question and, on a later line, what is to follow it
HasAfter(question, kind) ==
  \E i, j \in 1..Len(body) : i < j /\ body[i].t = question /\ body[j].t = kind
\* the number on the first such line after the first line with the question
FirstAfter(question, kind) ==
  { body[j] : j \in { j \in 1..Len(body) :
      /\ body[j].t = kind
      /\ \E i \in 1..(j-1) : body[i].t = question
      /\ \A k \in 1..(j-1) :
           body[k].t = kind => \A i \in 1..(k-1) : body[i].t # question } }

\* what the steps of a job did, in order
RECURSIVE LogOf(_, _)
LogOf(l, job) ==
  IF l = <<>> THEN <<>>
  ELSE IF Head(l).job = job /\ Head(l).op # "slack"
       THEN <<Head(l)>> \o LogOf(Tail(l), job)
       ELSE LogOf(Tail(l), job)
IsPrefix(a, b) == Len(a) <= Len(b) /\ SubSeq(b, 1, Len(a)) = a
Ended == \A j \in Jobs : jobStatus[j] \in {"success", "failure", "skipped"}
RunFailed == \E j \in Jobs : jobStatus[j] = "failure"

\* C8: for the label CFE Approved, with both patterns in the body the PR found
\* gets the label, then the issue the milestone MAJOR.MINOR.0, then the comment
\* is posted, in this order and all three once the job has succeeded; with
\* either pattern missing the run fails and none of the three is done.
C8_ApprovedFlow ==
  label = L_APPROVED =>
    LET done == LogOf(log, "cfe-approved")
    IN IF HasAfter(Q_RELEASE, "release") /\ HasAfter(Q_PR, "pull")
       THEN \A r \in FirstAfter(Q_RELEASE, "release"), p \in FirstAfter(Q_PR, "pull") :
              LET all == << Entry("cfe-approved", "cherry pick to trunk", <<p.a>>),
                            Entry("cfe-approved", "milestone", <<r.a, r.b, 0>>),
                            Entry("cfe-approved", "comment", <<>>) >>
              IN /\ IsPrefix(done, all)
                 /\ jobStatus["cfe-approved"] = "success" => done = all
       ELSE /\ done = <<>>
            /\ Ended => RunFailed

C8_Witness ==
  /\ label = L_APPROVED
  /\ jobStatus["cfe-approved"] = "success"
  /\ Len(LogOf(log, "cfe-approved")) = 3
  /\ HasAfter(Q_RELEASE, "release")
  /\ HasAfter(Q_PR, "pull")
  /\ body[1].t = Q_PR

Ran(j) == jobStatus[j] \in {"running", "success", "failure"}

\* C10: at most one of cfe-created, cfe-approved and cfe-rejected runs, the one
\* of the label; prep runs exactly for the labels CFE Approved and CFE
\* Rejected; cfe-approved and cfe-rejected do nothing unless prep succeeded, so
\* that every milestone applied is the release number of the body followed by
\* .0; a Slack notification that fails does not fail its job.
C10_JobGating ==
  /\ Cardinality({ j \in {"cfe-created", "cfe-approved", "cfe-rejected"} : Ran(j) }) <= 1
  /\ Ran("cfe-created") => label = L_CREATED
  /\ Ran("cfe-approved") => label = L_APPROVED
  /\ Ran("cfe-rejected") => label = L_REJECTED
  /\ Ran("prep") => label \in {L_APPROVED, L_REJECTED}
  /\ jobStatus["prep"] = "skipped" => label \notin {L_APPROVED, L_REJECTED}
  /\ \A j \in {"cfe-approved", "cfe-rejected"} :
       (Ran(j) \/ step[j] > 0 \/ \E i \in 1..Len(log) : log[i].job = j)
         => jobStatus["prep"] = "success"
  /\ \A i \in 1..Len(log) :
       log[i].op = "milestone" =>
         /\ HasAfter(Q_RELEASE, "release")
         /\ \A r \in FirstAfter(Q_RELEASE, "release") : log[i].arg = <<r.a, r.b, 0>>
  /\ \A i \in 1..Len(log) :
       (log[i].op = "slack" /\ log[i].arg = <<0>>) => jobStatus[log[i].job] = "success"

C10_Witness ==
  /\ label = L_REJECTED
  /\ jobStatus["cfe-rejected"] = "success"
  /\ \E i \in 1..Len(log) : log[i].op = "milestone"
  /\ \E i \in 1..Len(log) : log[i].op = "slack" /\ log[i].arg = <<0>>
  /\ jobStatus["cfe-created"] = "skipped"

(***************************************************************************)
(* Claim about TotalsCoupon.                                               *)
(***************************************************************************)
\* C9: the form goes from hidden to shown only on a click on the link, from
\* shown to hidden only on a submit without onSubmit or on a result of true,
\* the coupon value being reset in that step; a result of false and an
\* onSubmit that returns undefined change neither.
C9_TwoStateAutomaton ==
  [][ /\ (isCouponFormHidden /\ ~isCouponFormHidden') => lastEvent' = "anchorClick"
      /\ (~isCouponFormHidden /\ isCouponFormHidden') =>
           /\ lastEvent' \in {"submitWithoutOnSubmit", "resultTrue"}
           /\ couponValue' = ""
      /\ lastEvent' \in {"resultFalse", "submitReturnedUndefined"} =>
           /\ isCouponFormHidden' = isCouponFormHidden
           /\ couponValue' = couponValue
    ]_vars

C9_Witness ==
  /\ lastEvent = "resultTrue"
  /\ isCouponFormHidden
  /\ couponValue = ""
  /\ pending = 1

=============================================================================
